---- MODULE Spec2Model ----
(***************************************************************************)
(* Model of src/src/partition_ecr_replicate.py: the Lambda queue_handler   *)
(* (store_records, build_start, build_join, wait_for_build,                *)
(* retrieve_results), the CodeBuild job it starts, and the job's main      *)
(* (retrieve_records, the per-record replication loop, store_results).     *)
(*                                                                         *)
(* Also the table functions called concurrently, and event_handler.        *)
(*                                                                         *)
(* Specifications:                                                         *)
(*   Spec            the whole pipeline for one queue_handler invocation;  *)
(*   SpecMain        main alone (the CLI entry point) over a richer set of *)
(*                   captured batches;                                     *)
(*   SpecScenario    main on well-formed batches, nothing failing;         *)
(*   SpecRedelivery  main run twice on the same batch of directives;       *)
(*   SpecStore       store_* and retrieve_* calls of two callers on one    *)
(*                   records_id, interleaved;                              *)
(*   SpecEvent       event_handler on one ECR image action event;          *)
(*   SpecWait        the pipeline on one message, with the Lambda's steps  *)
(*                   of wait_for_build weakly fair (termination).          *)
(* Times are in milliseconds, as get_remaining_time_in_millis reports.     *)
(***************************************************************************)
EXTENDS Integers, Sequences, FiniteSets, TLC

VARIABLES
    event,                \* queue_handler: event['Records'], the inbound SQS batch
    table,                \* the DynamoDB table: item kind -> item (one records_id)
    hpc,                  \* queue_handler: position of the Lambda invocation
    herr,                 \* queue_handler: the exception it raised, or NoError
    hret,                 \* queue_handler: its return value, or NoValue
    phase,                \* wait_for_build: the target phase it was called with
    remaining,            \* context.get_remaining_time_in_millis()
    build,                \* the snapshot wait_for_build last returned, or NoSnapshot
    codebuild,            \* CodeBuild: the build's current phase and status
    mpc,                  \* main: position of the job process
    records,              \* main: the list retrieve_records returned
    idx,                  \* main: index of the record the loop is at
    images,               \* main: the per-batch cache, image_digest -> ECRImage
    failure_message_ids,  \* main: the failure list
    ops,                  \* history: registry/docker calls made, in order
    faults,               \* history: number of injected transport failures
    dst,                  \* the destination registry: <<repository, tag>> -> digest
    redelivered,          \* whether the batch was delivered, and main run, a second time
    once,                 \* dst as the first run of main left it
    clients,              \* the calls of the table functions in flight, per caller
    log,                  \* history: the calls of the table functions that ended
    ecr_event,            \* event_handler: the ECR image event it is invoked with
    epc,                  \* event_handler: its position
    queue                 \* the SQS FIFO queue: the messages sent to it

vars == <<event, table, hpc, herr, hret, phase, remaining, build,
          codebuild, mpc, records, idx, images, failure_message_ids, ops, faults,
          dst, redelivered, once, clients, log, ecr_event, epc, queue>>

hvars == <<hpc, herr, hret, phase, remaining, build>>
mvars == <<mpc, records, idx, images, failure_message_ids, ops>>
dvars == <<dst, redelivered, once>>
svars == <<clients, log>>
evars == <<ecr_event, epc, queue>>

----------------------------------------------------------------------------
(* Bounds of the model *)

MaxBatch == 2           \* SpecMain: longest inbound batch
MaxPipeBatch == 2       \* Spec: longest inbound batch
MaxBudgetUnits == 5     \* largest initial time budget, in units of 5 s
MaxFaults == 1          \* transport failures injected per run
MaxScenarioBatch == 3   \* SpecScenario: longest batch of well-formed directives
MaxRedeliveryBatch == 2 \* SpecRedelivery: longest redelivered batch
MaxCalls == 3           \* SpecStore: calls made on the records_id

----------------------------------------------------------------------------
(* BuildPhase (enum.IntEnum, enum.auto() counts from 1) *)

SUBMITTED == 1
PRE_BUILD == 6
BUILD == 7
COMPLETED == 11

BuildPhase == SUBMITTED..COMPLETED

AbnormalStatus == {"FAILED", "STOPPED"}
BuildStatus == {"IN_PROGRESS", "SUCCEEDED"} \cup AbnormalStatus

\* CodeBuild before start_build
NoBuild == [exists |-> FALSE, currentPhase |-> SUBMITTED, buildStatus |-> "IN_PROGRESS"]

\* the snapshot b of the build, as wait_for_build returned it for a target phase
Returned(b, target) ==
    [ exists |-> TRUE, target |-> target,
      currentPhase |-> b.currentPhase, buildStatus |-> b.buildStatus ]

NoSnapshot ==
    [ exists |-> FALSE, target |-> PRE_BUILD,
      currentPhase |-> SUBMITTED, buildStatus |-> "IN_PROGRESS" ]

----------------------------------------------------------------------------
(* wait_for_build: thresholds and the return test *)

LoopMarginMillis == 5000
BreakMarginMillis == 10000
SleepMillis == 10000

\* the time a batch_get_builds call may take, and the initial budgets
CallTimes == {0, 5000}
Budgets == {k * 5000 : k \in 0..MaxBudgetUnits}

NoError == "none"
NoValue == [returned |-> FALSE, batchItemFailures |-> <<>>]

----------------------------------------------------------------------------
(* Python values.  A value is [type, val]: a dict carries its key -> value  *)
(* mapping, a str its text.  None is Python's None.                         *)

None == "<None>"

PyDict(d) == [type |-> "dict", val |-> d]
PyStr(t) == [type |-> "str", val |-> t]
PyInt(n) == [type |-> "int", val |-> n]

\* bool(x) of a str-or-None: None and "" are falsy
Truthy(x) == x # None /\ x # ""

\* dict.get(key): the value, or None when the key is absent
DictGet(d, key) == IF key \in DOMAIN d THEN d[key] ELSE None

(* The text of an SQS message body: [json, val].  json says whether the     *)
(* text is a JSON document; val is then the value the document denotes,     *)
(* else the text itself, as the Python str it is.                           *)
JsonText(v) == [json |-> TRUE, val |-> v]
PlainText(t) == [json |-> FALSE, val |-> PyStr(t)]

\* json.loads succeeds exactly on JSON documents and yields the value denoted
json_loads(text) == text.val

----------------------------------------------------------------------------
(* Inputs: directives and message bodies *)

Repos == {"rA", "rB"}
Digests == {"D1", "D2"}
Tags == {"", "v1", "v2"}
ActionTypes == {"PUSH", "DELETE"}

RequiredKeys == {"repository-name", "image-digest", "action-type"}

Directive(repo, digest, tag, action) ==
    IF tag = None
    THEN ("repository-name" :> repo @@ "image-digest" :> digest @@ "action-type" :> action)
    ELSE ("repository-name" :> repo @@ "image-digest" :> digest @@ "image-tag" :> tag
          @@ "action-type" :> action)

Without(d, key) == [k \in (DOMAIN d) \ {key} |-> d[k]]

Directives ==
    {Directive(r, g, t, a) : r \in Repos, g \in Digests, t \in Tags \cup {None}, a \in ActionTypes}

\* dicts that are no directive: a required key absent, or an action type
\* event_handler would not have queued
Malformed ==
    {Without(Directive("rA", "D1", "v1", "PUSH"), k) : k \in RequiredKeys}
    \cup {Directive("rA", "D1", "v1", "SCAN")}

BodyTexts ==
    {JsonText(PyDict(d)) : d \in Directives \cup Malformed}
    \cup {JsonText(PyInt(5)), PlainText("not json")}

\* the bodies of the batches the pipeline is run on
PipeBodyTexts ==
    { JsonText(PyDict(Directive("rA", "D1", "v1", "PUSH"))),
      JsonText(PyDict(Directive("rB", "D1", "v1", "PUSH"))) }

\* an inbound batch: message n of the batch has id and receipt handle n
Inbound(bodies) ==
    [n \in 1..Len(bodies) |-> [messageId |-> n, receiptHandle |-> n, body |-> bodies[n]]]

----------------------------------------------------------------------------
(* The DynamoDB table, for the one records_id of the run *)

NoItem == [exists |-> FALSE]
RecordsItem(item_records) == [exists |-> TRUE, Records |-> item_records]
ResultsItem(results) == [exists |-> TRUE, Results |-> results]

EmptyTable == [records |-> NoItem, results |-> NoItem]

\* variant: the records are stored last message first
store_records_reversed(recs) ==
    [n \in 1..Len(recs) |->
        [ MessageId |-> recs[Len(recs) + 1 - n].messageId,
          ReceiptHandle |-> recs[Len(recs) + 1 - n].receiptHandle,
          Body |-> recs[Len(recs) + 1 - n].body.val ]]

\* store_records: the Records attribute built from the inbound records
store_records(recs) ==
    [n \in 1..Len(recs) |->
        [ MessageId |-> recs[n].messageId,
          ReceiptHandle |-> recs[n].receiptHandle,
          Body |-> IF recs[n].body.json
                   THEN json_loads(recs[n].body)
                   ELSE recs[n].body.val ]]

\* variant: only the first failed message is reported
store_results_first_only(ids) ==
    [batchItemFailures |-> [n \in 1..(IF ids = <<>> THEN 0 ELSE 1) |->
                               [itemIdentifier |-> ids[n]]]]

\* store_results: the Results attribute built from the failure list
store_results(ids) ==
    [batchItemFailures |-> [n \in 1..Len(ids) |-> [itemIdentifier |-> ids[n]]]]

\* variant: an unconditional put
store_results_allowed_always(item) == TRUE

\* the put of store_results is conditional: it fails when the item exists
store_results_allowed(item) == ~item.exists

(* retrieve_records / retrieve_results: get_item, then delete_item in the   *)
(* finally block.  get_raises and delete_raises are the transport outcomes. *)

\* the try block: what the call is about to return, or that the read raised
retrieve_get(item, absent, get_raises) ==
    [ raised |-> get_raises,
      value  |-> IF get_raises \/ ~item.exists THEN absent
                 ELSE IF "Records" \in DOMAIN item THEN item.Records ELSE item.Results ]

\* the finally block issues delete_item on every exit path of the try block
retrieve_deletes(got) == TRUE

\* variant: a failure of the delete is raised to the caller
retrieve_outcome_propagates(got, delete_raises) ==
    [raised |-> got.raised \/ delete_raises, value |-> got.value]

\* except Exception around delete_item: logged, the call ends as the try block did
retrieve_outcome(got, delete_raises) == got

\* the item left in the table by the delete
retrieve_delete(item, got, delete_raises) ==
    IF retrieve_deletes(got) /\ ~delete_raises THEN NoItem ELSE item

\* The whole call: what the caller gets and the item left in the table
retrieve(item, absent, get_raises, delete_raises) ==
    LET got == retrieve_get(item, absent, get_raises)
        out == retrieve_outcome(got, delete_raises)
    IN  [ raised |-> out.raised,
          value  |-> out.value,
          item   |-> retrieve_delete(item, got, delete_raises) ]

retrieve_records(item, get_raises, delete_raises) ==
    retrieve(item, <<>>, get_raises, delete_raises)

retrieve_results(item, get_raises, delete_raises) ==
    retrieve(item, [batchItemFailures |-> <<>>], get_raises, delete_raises)

Cost(b) == IF b THEN 1 ELSE 0

----------------------------------------------------------------------------
(* wait_for_build, build_start, build_join: the tests of the code *)

\* variant: the loop test with the margin of the second test
wait_loop_runs_above_break_margin(rem) == rem > BreakMarginMillis

\* while context.get_remaining_time_in_millis() > 5000
wait_loop_runs(rem) == rem > LoopMarginMillis

\* variant: reaching the target phase is enough, whatever the status
wait_returns_at_target(b, target) ==
    \/ b.buildStatus \notin {"SUCCEEDED", "IN_PROGRESS"}
    \/ b.currentPhase >= target

\* the three return conditions of the loop body
wait_returns(b, target) ==
    \/ b.buildStatus \notin {"SUCCEEDED", "IN_PROGRESS"}
    \/ b.currentPhase = target /\ b.buildStatus # "IN_PROGRESS"
    \/ b.currentPhase > target

\* variant: the second budget test never breaks
wait_breaks_never(rem) == FALSE

\* if context.get_remaining_time_in_millis() <= 10000: break
wait_breaks(rem) == rem <= BreakMarginMillis

\* variant: only the FAILED status is a failure
build_start_failed_only_failed(b) == b.buildStatus = "FAILED"

build_start_failed(b) == b.buildStatus \notin {"SUCCEEDED", "IN_PROGRESS"}

\* variant: only the FAILED status is a failure
build_join_failed_only_failed(b) == b.buildStatus = "FAILED"

\* variant: the status of the joined build is not tested
build_join_failed_never(b) == FALSE

build_join_failed(b) == b.buildStatus # "SUCCEEDED"

Raise(msg) ==
    /\ hpc' = "raised"
    /\ herr' = msg

----------------------------------------------------------------------------
(* queue_handler (the Lambda invocation) *)

\* records_id = store_records(event['Records'])
queue_handler_store ==
    /\ hpc = "store_records"
    /\ \E put_raises \in BOOLEAN :
        /\ faults + Cost(put_raises) <= MaxFaults
        /\ faults' = faults + Cost(put_raises)
        /\ IF put_raises
           THEN Raise("ClientError") /\ UNCHANGED table
           ELSE /\ table' = [table EXCEPT !.records = RecordsItem(store_records(event))]
                /\ hpc' = "start_build"
                /\ UNCHANGED herr
    /\ UNCHANGED <<event, hret, phase, remaining, build, codebuild>>
    /\ UNCHANGED mvars
    /\ UNCHANGED <<svars, evars>>
    /\ UNCHANGED dvars

\* build_start: codebuild_clnt.start_build, then wait_for_build(PRE_BUILD)
build_start ==
    /\ hpc = "start_build"
    /\ \E has_build \in BOOLEAN :
        IF has_build
        THEN /\ codebuild' = [exists |-> TRUE, currentPhase |-> SUBMITTED,
                              buildStatus |-> "IN_PROGRESS"]
             /\ phase' = PRE_BUILD
             /\ hpc' = "wait_loop"
             /\ UNCHANGED herr
        ELSE /\ Raise("No build started")
             /\ UNCHANGED <<codebuild, phase>>
    /\ UNCHANGED <<event, table, hret, remaining, build, faults>>
    /\ UNCHANGED mvars
    /\ UNCHANGED <<svars, evars>>
    /\ UNCHANGED dvars

\* wait_for_build: the while test; leaving the loop raises ValueError
wait_for_build_loop ==
    /\ hpc = "wait_loop"
    /\ IF wait_loop_runs(remaining)
       THEN hpc' = "wait_poll" /\ UNCHANGED herr
       ELSE Raise("Not enough time to wait for build")
    /\ UNCHANGED <<event, table, hret, phase, remaining, build, codebuild, faults>>
    /\ UNCHANGED mvars
    /\ UNCHANGED <<svars, evars>>
    /\ UNCHANGED dvars

(* wait_for_build: batch_get_builds and the return conditions; a snapshot   *)
(* that satisfies one is returned to the caller, build_start (target       *)
(* PRE_BUILD) or build_join (target COMPLETED), which tests its status:    *)
(* build_start then returns the build id and build_join begins, build_join *)
(* returns to queue_handler.                                               *)
wait_for_build_poll ==
    /\ hpc = "wait_poll"
    /\ \E t \in CallTimes, found \in BOOLEAN :
        /\ remaining' = remaining - t
        /\ IF ~found
           THEN Raise("No builds found") /\ build' = NoSnapshot /\ UNCHANGED phase
           ELSE IF ~wait_returns(codebuild, phase)
           THEN hpc' = "wait_sleep" /\ build' = NoSnapshot /\ UNCHANGED <<herr, phase>>
           ELSE /\ build' = Returned(codebuild, phase)
                /\ IF phase = PRE_BUILD
                   THEN IF build_start_failed(codebuild)
                        THEN Raise("Build failed") /\ UNCHANGED phase
                        ELSE hpc' = "wait_loop" /\ phase' = COMPLETED /\ UNCHANGED herr
                   ELSE IF build_join_failed(codebuild)
                        THEN Raise("Build failed") /\ UNCHANGED phase
                        ELSE hpc' = "retrieve_results" /\ UNCHANGED <<herr, phase>>
    /\ UNCHANGED <<event, table, hret, codebuild, faults>>
    /\ UNCHANGED mvars
    /\ UNCHANGED <<svars, evars>>
    /\ UNCHANGED dvars

\* wait_for_build: the second budget test, then sleep(10)
wait_for_build_sleep ==
    /\ hpc = "wait_sleep"
    /\ IF wait_breaks(remaining)
       THEN Raise("Not enough time to wait for build") /\ UNCHANGED remaining
       ELSE /\ remaining' = remaining - SleepMillis
            /\ hpc' = "wait_loop"
            /\ UNCHANGED herr
    /\ UNCHANGED <<event, table, hret, phase, build, codebuild, faults>>
    /\ UNCHANGED mvars
    /\ UNCHANGED <<svars, evars>>
    /\ UNCHANGED dvars

\* return retrieve_results(records_id)
queue_handler_return ==
    /\ hpc = "retrieve_results"
    /\ \E get_raises, delete_raises \in BOOLEAN :
        LET r == retrieve_results(table.results, get_raises, delete_raises) IN
        /\ faults + Cost(get_raises) + Cost(delete_raises) <= MaxFaults
        /\ faults' = faults + Cost(get_raises) + Cost(delete_raises)
        /\ table' = [table EXCEPT !.results = r.item]
        /\ IF r.raised
           THEN Raise("ClientError") /\ UNCHANGED hret
           ELSE /\ hret' = [returned |-> TRUE, batchItemFailures |-> r.value.batchItemFailures]
                /\ hpc' = "returned"
                /\ UNCHANGED herr
    /\ UNCHANGED <<event, phase, remaining, build, codebuild>>
    /\ UNCHANGED mvars
    /\ UNCHANGED <<svars, evars>>
    /\ UNCHANGED dvars

----------------------------------------------------------------------------
(* ECRImage *)

\* ECRImage.__init__: one repository and one digest; nothing is pulled yet
ECRImage(repo_name, image_digest) ==
    [repo_name |-> repo_name, image_digest |-> image_digest, pulled |-> FALSE]

\* one call to docker or to the destination registry, made for the record
\* with MessageId rec
Call(op, image, tag, rec, result) ==
    [ op |-> op, repo |-> image.repo_name, digest |-> image.image_digest,
      tag |-> tag, rec |-> rec, result |-> result ]

(* Transport outcomes of one record: "ok", or the call that raises.        *)
Outcomes == {"ok", "pull", "tag", "push", "delete"}

\* variant: the image is pulled on every use
image_pulls_always(image) == TRUE

\* ECRImage.image: pull on first use, then the cached image
image_pulls(image) == ~image.pulled

\* variant: the tag is not validated
replicate_push_checks_nothing(image_tag) == FALSE

\* ECRImage.replicate_push: if not image_tag: raise ValueError
replicate_push_checks(image_tag) == ~Truthy(image_tag)

\* ECRImage.replicate_push: [image, calls, raised]

replicate_push(image, image_tag, rec, outcome) ==
    LET pull   == IF image_pulls(image)
                  THEN <<Call("pull", image, None, rec,
                              IF outcome = "pull" THEN "raise" ELSE "ok")>>
                  ELSE <<>>
        pulled == [image EXCEPT !.pulled = TRUE]
    IN  IF replicate_push_checks(image_tag)
        THEN [image |-> image, calls |-> <<>>, raised |-> TRUE]
        ELSE IF image_pulls(image) /\ outcome = "pull"
        THEN [image |-> image, calls |-> pull, raised |-> TRUE]
        ELSE IF outcome = "tag"
        THEN [image |-> pulled, raised |-> TRUE,
              calls |-> pull \o <<Call("tag", image, image_tag, rec, "raise")>>]
        ELSE [image |-> pulled, raised |-> (outcome = "push"),
              calls |-> pull \o
                  << Call("tag", image, image_tag, rec, "ok"),
                     Call("push", image, image_tag, rec,
                          IF outcome = "push" THEN "raise" ELSE "ok") >>]

\* variant: the delete is always by digest, a given tag is ignored
replicate_delete_by_digest(image, image_tag, rec, outcome) ==
    [ image |-> image, raised |-> (outcome = "delete"),
      calls |-> << Call("delete", image, None, rec,
                        IF outcome = "delete" THEN "raise" ELSE "ok") >> ]

\* ECRImage.replicate_delete: by tag when one is given, else by digest
replicate_delete(image, image_tag, rec, outcome) ==
    [ image |-> image, raised |-> (outcome = "delete"),
      calls |-> << Call("delete", image, IF Truthy(image_tag) THEN image_tag ELSE None, rec,
                        IF outcome = "delete" THEN "raise" ELSE "ok") >> ]

\* the outcomes that can happen to a call the record makes
OutcomesOf(action_type, image_tag, image) ==
    IF action_type = "PUSH" /\ Truthy(image_tag)
    THEN {"ok", "tag", "push"} \cup (IF image.pulled THEN {} ELSE {"pull"})
    ELSE IF action_type = "DELETE"
    THEN {"ok", "delete"}
    ELSE {"ok"}

----------------------------------------------------------------------------
(* The destination registry: which digest each tag of each repository names *)

Absent == "<absent>"
DstTags == Tags \ {""}
DstSlots == Repos \X DstTags

NoImages == [slot \in DstSlots |-> Absent]

\* variant: a push does not move a tag that already names an image
ApplyCall_keeps_existing_tag(d, call) ==
    IF call.result # "ok" THEN d
    ELSE IF call.op = "push"
    THEN IF d[<<call.repo, call.tag>>] = Absent
         THEN [d EXCEPT ![<<call.repo, call.tag>>] = call.digest]
         ELSE d
    ELSE IF call.op = "delete" /\ call.tag # None
    THEN [d EXCEPT ![<<call.repo, call.tag>>] = Absent]
    ELSE IF call.op = "delete"
    THEN [slot \in DstSlots |->
              IF slot[1] = call.repo /\ d[slot] = call.digest THEN Absent ELSE d[slot]]
    ELSE d

\* the effect of one call on the destination: a push (docker_clnt.images.push
\* of dst_repo:tag) makes the tag name the digest; batch_delete_image with an
\* imageTag removes that tag, with an imageDigest the image and all its tags;
\* a pull or a tag, and a call that raised, leave the destination as it was
ApplyCall(d, call) ==
    IF call.result # "ok" THEN d
    ELSE IF call.op = "push"
    THEN [d EXCEPT ![<<call.repo, call.tag>>] = call.digest]
    ELSE IF call.op = "delete" /\ call.tag # None
    THEN [d EXCEPT ![<<call.repo, call.tag>>] = Absent]
    ELSE IF call.op = "delete"
    THEN [slot \in DstSlots |->
              IF slot[1] = call.repo /\ d[slot] = call.digest THEN Absent ELSE d[slot]]
    ELSE d

RECURSIVE ApplyCalls(_, _)
ApplyCalls(d, calls) ==
    IF calls = <<>> THEN d
    ELSE ApplyCalls(ApplyCall(d, Head(calls)), Tail(calls))

----------------------------------------------------------------------------
(* main (the job) *)

\* record['Body'][key] for the required keys: "ok", "KeyError" or "TypeError"
read_fields(detail) ==
    IF detail.type # "dict" THEN "TypeError"
    ELSE IF RequiredKeys \subseteq DOMAIN detail.val THEN "ok"
    ELSE "KeyError"

\* variant: a missing field marks the record failed
on_missing_field_fails(ids, record) == Append(ids, record.MessageId)

\* except KeyError: log and continue
on_missing_field(ids, record) == ids

\* variant: a caught exception is logged but the record is not marked failed
on_exception_forgets(ids, record) == ids

\* _failure(record)
on_exception(ids, record) == Append(ids, record.MessageId)

\* images[image_digest], created from this record when absent
lookup_image(imgs, repo_name, image_digest) ==
    IF image_digest \in DOMAIN imgs
    THEN imgs[image_digest]
    ELSE ECRImage(repo_name, image_digest)

\* the second try block of the loop body: [image, calls, raised]
replicate(detail, imgs, rec, outcome) ==
    LET image == lookup_image(imgs, detail["repository-name"], detail["image-digest"])
        image_tag == DictGet(detail, "image-tag")
    IN  IF detail["action-type"] = "PUSH"
        THEN replicate_push(image, image_tag, rec, outcome)
        ELSE IF detail["action-type"] = "DELETE"
        THEN replicate_delete(image, image_tag, rec, outcome)
        ELSE [image |-> image, calls |-> <<>>, raised |-> FALSE]

\* login(), then retrieve_records(records_id)
main_begin ==
    /\ mpc = "start"
    /\ \E get_raises, delete_raises \in BOOLEAN :
        LET r == retrieve_records(table.records, get_raises, delete_raises) IN
        /\ faults + Cost(get_raises) + Cost(delete_raises) <= MaxFaults
        /\ faults' = faults + Cost(get_raises) + Cost(delete_raises)
        /\ table' = [table EXCEPT !.records = r.item]
        /\ IF r.raised
           THEN mpc' = "crashed" /\ UNCHANGED records
           ELSE mpc' = "loop" /\ records' = r.value
    /\ UNCHANGED <<event, codebuild, idx, images, failure_message_ids, ops>>
    /\ UNCHANGED hvars
    /\ UNCHANGED <<svars, evars>>
    /\ UNCHANGED dvars

\* one iteration of: for record in retrieve_records(records_id)
main_record ==
    /\ mpc = "loop"
    /\ idx <= Len(records)
    /\ LET record == records[idx]
           fields == read_fields(record.Body)
       IN  IF fields = "TypeError"
           THEN /\ mpc' = "crashed"
                /\ UNCHANGED <<idx, images, failure_message_ids, ops, faults>>
           ELSE IF fields = "KeyError"
           THEN /\ failure_message_ids' = on_missing_field(failure_message_ids, record)
                /\ idx' = idx + 1
                /\ UNCHANGED <<mpc, images, ops, faults>>
           ELSE LET detail == record.Body.val
                    image  == lookup_image(images, detail["repository-name"],
                                           detail["image-digest"])
                IN  \E outcome \in OutcomesOf(detail["action-type"],
                                             DictGet(detail, "image-tag"), image) :
                        LET r == replicate(detail, images, record.MessageId, outcome) IN
                        /\ faults + Cost(outcome # "ok") <= MaxFaults
                        /\ faults' = faults + Cost(outcome # "ok")
                        /\ images' = (detail["image-digest"] :> r.image) @@ images
                        /\ ops' = ops \o r.calls
                        /\ failure_message_ids' =
                               IF r.raised THEN on_exception(failure_message_ids, record)
                                           ELSE failure_message_ids
                        /\ idx' = idx + 1
                        /\ UNCHANGED mpc
    /\ dst' = ApplyCalls(dst, SubSeq(ops', Len(ops) + 1, Len(ops')))
    /\ UNCHANGED <<event, table, codebuild, records, redelivered, once>>
    /\ UNCHANGED hvars
    /\ UNCHANGED <<svars, evars>>

\* store_results(records_id, failure_message_ids)
main_end ==
    /\ mpc = "loop"
    /\ idx > Len(records)
    /\ \E put_raises \in BOOLEAN :
        /\ faults + Cost(put_raises) <= MaxFaults
        /\ faults' = faults + Cost(put_raises)
        /\ IF put_raises \/ ~store_results_allowed(table.results)
           THEN mpc' = "crashed" /\ UNCHANGED table
           ELSE /\ mpc' = "done"
                /\ table' = [table EXCEPT
                       !.results = ResultsItem(store_results(failure_message_ids))]
    /\ UNCHANGED <<event, codebuild, records, idx, images, failure_message_ids, ops>>
    /\ UNCHANGED hvars
    /\ UNCHANGED <<svars, evars>>
    /\ UNCHANGED dvars

\* the batch is delivered again (its messages became visible again): it is
\* stored again and main is run on it in a new job, with a new images cache
redeliver ==
    /\ mpc = "done"
    /\ ~redelivered
    /\ redelivered' = TRUE
    /\ once' = dst
    /\ table' = [EmptyTable EXCEPT !.records = RecordsItem(store_records(event))]
    /\ mpc' = "start"
    /\ records' = <<>>
    /\ idx' = 1
    /\ images' = <<>>
    /\ failure_message_ids' = <<>>
    /\ UNCHANGED <<event, codebuild, ops, faults, dst>>
    /\ UNCHANGED <<hvars, svars, evars>>

----------------------------------------------------------------------------
(* CodeBuild (the job runner): the build walks the phases in order; the    *)
(* job's main runs in the BUILD phase.                                     *)

MainRunning == mpc \in {"start", "loop"}

\* the build enters its next phase; entering BUILD starts main, and the
\* BUILD phase ends when main has ended: a non-zero exit fails the build
codebuild_next_phase ==
    /\ codebuild.exists
    /\ codebuild.currentPhase < COMPLETED
    /\ ~MainRunning
    /\ LET failed  == codebuild.buildStatus \in AbnormalStatus
           next    == codebuild.currentPhase + 1
       IN  /\ codebuild' =
                  [codebuild EXCEPT
                      !.currentPhase = next,
                      !.buildStatus = IF failed THEN @
                                      ELSE IF mpc = "crashed" THEN "FAILED"
                                      ELSE "IN_PROGRESS"]
           /\ mpc' = IF next = BUILD /\ ~failed THEN "start" ELSE mpc
    /\ UNCHANGED <<event, table, records, idx, images, failure_message_ids, ops, faults>>
    /\ UNCHANGED hvars
    /\ UNCHANGED <<svars, evars>>
    /\ UNCHANGED dvars

\* the current phase ends well
codebuild_succeeds ==
    /\ codebuild.exists
    /\ codebuild.buildStatus = "IN_PROGRESS"
    /\ ~MainRunning
    /\ mpc # "crashed"
    /\ codebuild' = [codebuild EXCEPT !.buildStatus = "SUCCEEDED"]
    /\ UNCHANGED <<event, table, faults>>
    /\ UNCHANGED mvars
    /\ UNCHANGED hvars
    /\ UNCHANGED <<svars, evars>>
    /\ UNCHANGED dvars

\* the build fails, is stopped or times out, in any phase; a running main
\* is killed with it
codebuild_fails ==
    /\ codebuild.exists
    /\ codebuild.buildStatus = "IN_PROGRESS"
    /\ \E status \in AbnormalStatus :
        codebuild' = [codebuild EXCEPT !.buildStatus = status]
    /\ mpc' = IF MainRunning THEN "killed" ELSE mpc
    /\ UNCHANGED <<event, table, records, idx, images, failure_message_ids, ops, faults>>
    /\ UNCHANGED hvars
    /\ UNCHANGED <<svars, evars>>
    /\ UNCHANGED dvars

----------------------------------------------------------------------------
(* The table functions, called on one records_id by concurrent callers     *)
(* (the Lambda, job instances).  A retrieve_* call is two steps, get_item  *)
(* and delete_item; the puts are single calls.  log keeps each ended call: *)
(* began is the number of calls that had ended when it began; got is what  *)
(* the read of a retrieval gave, and the failure list of a store_results.  *)

\* two processes that call retrieve_* on the id (a job and its re-run)
Callers == {"job", "job again"}
Kinds == {"records", "results"}

\* the batches stored: none, one or two messages, decodable or not
StoredBodyTexts ==
    LET push == JsonText(PyDict(Directive("rA", "D1", "v1", "PUSH")))
        text == PlainText("not json")
    IN  { <<>>, <<push>>, <<text, push>>, <<push, text>> }

\* the failure lists reported
FailureLists == { <<>>, <<1, 2>> }

NoGot == [raised |-> FALSE, value |-> <<>>]
IdleCall == [pc |-> "idle", kind |-> "records", began |-> 0, got |-> NoGot]

\* what retrieve_<kind> returns when the item is absent
AbsentValue(kind) == IF kind = "records" THEN <<>> ELSE [batchItemFailures |-> <<>>]

InFlight == Cardinality({c \in Callers : clients[c].pc # "idle"})
CallsLeft == Len(log) + InFlight < MaxCalls

Ended(op, kind, began, got, out, deleted, delete_failed) ==
    [ op |-> op, kind |-> kind, began |-> began, got |-> got,
      raised |-> out.raised, value |-> out.value,
      deleted |-> deleted, delete_failed |-> delete_failed ]

\* store_records(records): one put_item under a fresh uuid4, so once per id
store_records_call ==
    /\ CallsLeft
    /\ \A i \in 1..Len(log) : log[i].op # "store_records"
    /\ \E put_raises \in BOOLEAN :
        LET item_records == store_records(event)
            out == [raised |-> put_raises, value |-> item_records] IN
        /\ faults + Cost(put_raises) <= MaxFaults
        /\ faults' = faults + Cost(put_raises)
        /\ table' = IF put_raises THEN table
                    ELSE [table EXCEPT !.records = RecordsItem(item_records)]
        /\ log' = Append(log, Ended("store_records", "records", Len(log), out, out,
                                    FALSE, FALSE))
    /\ UNCHANGED <<event, codebuild, clients>>
    /\ UNCHANGED <<hvars, mvars, dvars, evars>>

\* store_results(item_id, failure_message_ids): one conditional put_item
store_results_call ==
    /\ CallsLeft
    /\ \E ids \in FailureLists, put_raises \in BOOLEAN :
        LET results == store_results(ids)
            refused == ~store_results_allowed(table.results)
            out == [raised |-> put_raises \/ refused, value |-> results] IN
        /\ faults + Cost(put_raises) <= MaxFaults
        /\ faults' = faults + Cost(put_raises)
        /\ table' = IF out.raised THEN table
                    ELSE [table EXCEPT !.results = ResultsItem(results)]
        /\ log' = Append(log, Ended("store_results", "results", Len(log),
                                    [raised |-> FALSE, value |-> ids], out,
                                    FALSE, FALSE))
    /\ UNCHANGED <<event, codebuild, clients>>
    /\ UNCHANGED <<hvars, mvars, dvars, evars>>

\* retrieve_records / retrieve_results: the try block (table.get_item)
retrieve_get_item ==
    /\ CallsLeft
    /\ \E c \in Callers, kind \in Kinds, get_raises \in BOOLEAN :
        /\ clients[c].pc = "idle"
        /\ faults + Cost(get_raises) <= MaxFaults
        /\ faults' = faults + Cost(get_raises)
        /\ clients' = [clients EXCEPT ![c] =
               [ pc |-> "delete", kind |-> kind, began |-> Len(log),
                 got |-> retrieve_get(table[kind], AbsentValue(kind), get_raises) ]]
    /\ UNCHANGED <<event, table, codebuild, log>>
    /\ UNCHANGED <<hvars, mvars, dvars, evars>>

\* retrieve_records / retrieve_results: the finally block (table.delete_item)
retrieve_delete_item ==
    /\ \E c \in Callers, delete_raises \in BOOLEAN :
        LET call == clients[c]
            issued == retrieve_deletes(call.got)
            failed == issued /\ delete_raises IN
        /\ call.pc = "delete"
        /\ issued \/ ~delete_raises
        /\ faults + Cost(failed) <= MaxFaults
        /\ faults' = faults + Cost(failed)
        /\ table' = [table EXCEPT
               ![call.kind] = retrieve_delete(table[call.kind], call.got, delete_raises)]
        /\ log' = Append(log, Ended("retrieve", call.kind, call.began, call.got,
                                    retrieve_outcome(call.got, failed), issued, failed))
        /\ clients' = [clients EXCEPT ![c] = IdleCall]
    /\ UNCHANGED <<event, codebuild>>
    /\ UNCHANGED <<hvars, mvars, dvars, evars>>

----------------------------------------------------------------------------
(* event_handler (the Lambda on ECR image events) *)

\* the action types of the events delivered: the two handled and two others
EventActionTypes == ActionTypes \cup {"SCAN", "REPLICATE"}

\* event['detail'] of an ECR image event
EventDetails ==
    {Directive(r, g, t, a) :
        r \in Repos, g \in Digests, t \in Tags \cup {None}, a \in EventActionTypes}

\* json.dumps: the JSON document that denotes the dict
json_dumps(detail) == JsonText(PyDict(detail))

\* msg_group_id: the repository name, with ":tag" appended when a tag is given
msg_group_id(repo_name, image_tag) ==
    IF Truthy(image_tag) THEN <<repo_name, ":", image_tag>> ELSE <<repo_name>>

\* variant: every action type is queued
event_skipped_never(action_type) == FALSE

\* if action_type not in {'PUSH', 'DELETE'}: return
event_skipped(action_type) == action_type \notin {"PUSH", "DELETE"}

\* one call of queue.send_message, as the queue saw it
Sent(detail, raises) ==
    [ MessageBody |-> json_dumps(detail),
      MessageGroupId |-> msg_group_id(detail["repository-name"],
                                      DictGet(detail, "image-tag")),
      result |-> IF raises THEN "raise" ELSE "ok" ]

\* event_handler(event, context), in the deployed function, where
\* IMAGES_QUEUE is set; send_raises is the transport outcome of send_message
event_handler ==
    /\ epc = "start"
    /\ LET detail == ecr_event.detail IN
       IF event_skipped(detail["action-type"])
       THEN /\ epc' = "returned"
            /\ UNCHANGED <<queue, faults>>
       ELSE \E send_raises \in BOOLEAN :
            /\ faults + Cost(send_raises) <= MaxFaults
            /\ faults' = faults + Cost(send_raises)
            /\ queue' = Append(queue, Sent(detail, send_raises))
            /\ epc' = IF send_raises THEN "raised" ELSE "returned"
    /\ UNCHANGED <<event, table, codebuild, ecr_event>>
    /\ UNCHANGED <<hvars, mvars, dvars, svars>>

----------------------------------------------------------------------------
(* Specifications *)

InitLocals ==
    /\ herr = NoError
    /\ hret = NoValue
    /\ phase = PRE_BUILD
    /\ build = NoSnapshot
    /\ codebuild = NoBuild
    /\ records = <<>>
    /\ idx = 1
    /\ images = <<>>
    /\ failure_message_ids = <<>>
    /\ ops = <<>>
    /\ redelivered = FALSE
    /\ clients = [c \in Callers |-> IdleCall]
    /\ log = <<>>
    /\ ecr_event = [detail |-> Directive("rA", "D1", "v1", "PUSH")]
    /\ epc = "idle"
    /\ queue = <<>>

\* queue_handler is invoked with a batch and a time budget
Init ==
    /\ \E len \in 0..MaxPipeBatch : \E bodies \in [1..len -> PipeBodyTexts] :
           event = Inbound(bodies)
    /\ remaining \in Budgets
    /\ table = EmptyTable
    /\ hpc = "store_records"
    /\ mpc = "idle"
    /\ faults = 0
    /\ dst = NoImages
    /\ once = dst
    /\ InitLocals

Next ==
    \/ queue_handler_store
    \/ build_start
    \/ wait_for_build_loop
    \/ wait_for_build_poll
    \/ wait_for_build_sleep
    \/ queue_handler_return
    \/ codebuild_next_phase
    \/ codebuild_succeeds
    \/ codebuild_fails
    \/ main_begin
    \/ main_record
    \/ main_end

Spec == Init /\ [][Next]_vars

\* main is run on a records_id under which store_records stored a batch,
\* or under which nothing is stored
InitMain ==
    /\ \E len \in 0..MaxBatch : \E bodies \in [1..len -> BodyTexts] :
           event = Inbound(bodies)
    /\ table \in { [EmptyTable EXCEPT !.records = RecordsItem(store_records(event))] }
                 \cup (IF event = <<>> THEN {EmptyTable} ELSE {})
    /\ remaining = 0
    /\ hpc = "idle"
    /\ mpc = "start"
    /\ faults = 0
    /\ dst = NoImages
    /\ once = dst
    /\ InitLocals

NextMain ==
    \/ main_begin
    \/ main_record
    \/ main_end

SpecMain == InitMain /\ [][NextMain]_vars

\* the bodies of well-formed directives: a PUSH has a tag, a DELETE may have one
WellFormedBodyTexts ==
    {JsonText(PyDict(Directive(r, g, t, "PUSH"))) :
        r \in Repos, g \in Digests, t \in DstTags}
    \cup {JsonText(PyDict(Directive(r, g, t, "DELETE"))) :
        r \in Repos, g \in Digests, t \in {"v1", None}}

\* main is run on a stored batch of well-formed directives; nothing fails
InitScenario ==
    /\ \E len \in 0..MaxScenarioBatch : \E bodies \in [1..len -> WellFormedBodyTexts] :
           event = Inbound(bodies)
    /\ table = [EmptyTable EXCEPT !.records = RecordsItem(store_records(event))]
    /\ remaining = 0
    /\ hpc = "idle"
    /\ mpc = "start"
    /\ faults = MaxFaults
    /\ dst = NoImages
    /\ once = dst
    /\ InitLocals

SpecScenario == InitScenario /\ [][NextMain]_vars

\* destinations main may find: empty, or every tag naming one digest
InitialDestinations ==
    {NoImages} \cup {[slot \in DstSlots |-> g] : g \in Digests}

\* main is run on a stored batch of directives, then the batch is delivered
\* again and main is run on it again; nothing fails
InitRedelivery ==
    /\ \E len \in 0..MaxRedeliveryBatch :
           \E bodies \in [1..len -> {JsonText(PyDict(d)) : d \in Directives}] :
               event = Inbound(bodies)
    /\ table = [EmptyTable EXCEPT !.records = RecordsItem(store_records(event))]
    /\ remaining = 0
    /\ hpc = "idle"
    /\ mpc = "start"
    /\ faults = MaxFaults
    /\ dst \in InitialDestinations
    /\ once = dst
    /\ InitLocals

NextRedelivery ==
    \/ main_begin
    \/ main_record
    \/ main_end
    \/ redeliver

SpecRedelivery == InitRedelivery /\ [][NextRedelivery]_vars

\* the table functions are called on the records_id of one batch
InitStore ==
    /\ \E bodies \in StoredBodyTexts : event = Inbound(bodies)
    /\ table = EmptyTable
    /\ remaining = 0
    /\ hpc = "idle"
    /\ mpc = "idle"
    /\ faults = 0
    /\ dst = NoImages
    /\ once = dst
    /\ InitLocals

NextStore ==
    \/ store_records_call
    \/ store_results_call
    \/ retrieve_get_item
    \/ retrieve_delete_item

SpecStore == InitStore /\ [][NextStore]_vars

\* event_handler is invoked with one ECR image event
InitEvent ==
    /\ event = <<>>
    /\ table = EmptyTable
    /\ remaining = 0
    /\ hpc = "idle"
    /\ mpc = "idle"
    /\ faults = 0
    /\ dst = NoImages
    /\ once = dst
    /\ herr = NoError
    /\ hret = NoValue
    /\ phase = PRE_BUILD
    /\ build = NoSnapshot
    /\ codebuild = NoBuild
    /\ records = <<>>
    /\ idx = 1
    /\ images = <<>>
    /\ failure_message_ids = <<>>
    /\ ops = <<>>
    /\ redelivered = FALSE
    /\ clients = [c \in Callers |-> IdleCall]
    /\ log = <<>>
    /\ ecr_event \in {[detail |-> d] : d \in EventDetails}
    /\ epc = "start"
    /\ queue = <<>>

NextEvent == event_handler

SpecEvent == InitEvent /\ [][NextEvent]_vars

----------------------------------------------------------------------------
(* Properties of the poller, build_start and build_join (Spec) *)

Range(s) == {s[i] : i \in 1..Len(s)}

DeadlineExceeded == "Not enough time to wait for build"

\* the three conditions on a snapshot b and a target phase, as the claims state them
Satisfying(b, target) ==
    \/ b.buildStatus # "IN_PROGRESS" /\ b.buildStatus # "SUCCEEDED"
    \/ b.currentPhase = target /\ b.buildStatus # "IN_PROGRESS"
    \/ b.currentPhase > target

\* C1 (state part): a snapshot wait_for_build returned for target phase T has
\* an abnormal status, or phase T and a status other than IN_PROGRESS, or a
\* phase past T; it is never still running at or before T.
C1_ReturnedSatisfies ==
    build.exists =>
        /\ Satisfying(build, build.target)
        /\ ~(build.buildStatus = "IN_PROGRESS" /\ build.currentPhase <= build.target)

\* C1 (step part): on a snapshot that satisfies none of the three conditions
\* the poller returns nothing: it goes on to its sleep test, or raises.
C1_OtherKeepsPolling ==
    (hpc = "wait_poll" /\ hpc' # hpc /\ ~Satisfying(codebuild, phase))
        => /\ hpc' \in {"wait_sleep", "raised"}
           /\ ~build'.exists
           /\ phase' = phase

\* C1: wait_for_build returns a snapshot for target T only if the snapshot is
\* (a) neither IN_PROGRESS nor SUCCEEDED, or (b) at phase T and not
\* IN_PROGRESS, or (c) past phase T; on every other snapshot it keeps polling
\* or raises, so no snapshot still running at or before T is ever returned.
C1_PollerReturns == [] C1_ReturnedSatisfies /\ [][C1_OtherKeepsPolling]_vars

\* C1 witness: build_start got a snapshot that is past PRE_BUILD and running
C1_Witness ==
    /\ build.exists
    /\ build.target = PRE_BUILD
    /\ build.currentPhase > PRE_BUILD
    /\ build.buildStatus = "IN_PROGRESS"

\* C2 as the specification states it: the poll loop fetches a snapshot only
\* while the remaining time exceeds the 10 s margin.
C2_Original == hpc = "wait_poll" => remaining > BreakMarginMillis

\* C2 as the code has it: the loop test lets the body run (fetch, and maybe
\* return a snapshot) whenever more than 5 s remain, and otherwise raises
\* ValueError('Not enough time to wait for build'); after a fetch that
\* satisfied no return condition the poller sleeps 10 s only if more than
\* 10 s remain, and otherwise raises the same error.
C2_Amended ==
    [][ /\ (hpc = "wait_loop" /\ hpc' # hpc) =>
              IF remaining > LoopMarginMillis
              THEN hpc' = "wait_poll" /\ herr' = herr
              ELSE hpc' = "raised" /\ herr' = DeadlineExceeded
        /\ (hpc = "wait_sleep" /\ hpc' # hpc) =>
              IF remaining > BreakMarginMillis
              THEN hpc' = "wait_loop" /\ remaining' = remaining - SleepMillis
              ELSE hpc' = "raised" /\ herr' = DeadlineExceeded /\ remaining' = remaining
      ]_vars

\* C2 witness: the deadline error raised after a fetch, with more than 5 s
\* but no more than 10 s left
C2_Witness ==
    /\ hpc = "raised"
    /\ herr = DeadlineExceeded
    /\ remaining > LoopMarginMillis
    /\ remaining <= BreakMarginMillis

\* C3: build_join returns normally (queue_handler goes on to retrieve_results)
\* only with a snapshot, obtained for target COMPLETED, that has status
\* SUCCEEDED and phase COMPLETED; with any other snapshot, at any phase, it
\* raises RuntimeError('Build failed').
C3_JoinReturns ==
    /\ hpc \in {"retrieve_results", "returned"} =>
           /\ build.exists /\ build.target = COMPLETED
           /\ build.buildStatus = "SUCCEEDED"
           /\ build.currentPhase = COMPLETED
    /\ (build.exists /\ build.target = COMPLETED) =>
           IF build.buildStatus = "SUCCEEDED" /\ build.currentPhase = COMPLETED
           THEN \/ hpc \in {"retrieve_results", "returned"}
                \/ hpc = "raised" /\ herr = "ClientError"
           ELSE hpc = "raised" /\ herr = "Build failed"

\* C3 witness: build_join raised on an abnormal snapshot taken before COMPLETED
C3_Witness ==
    /\ hpc = "raised"
    /\ herr = "Build failed"
    /\ build.exists
    /\ build.target = COMPLETED
    /\ build.currentPhase < COMPLETED
    /\ build.buildStatus = "STOPPED"

\* C4: build_start returns a build id (build_join then begins) only when a
\* build was started and the snapshot the poller returned for PRE_BUILD has
\* status SUCCEEDED or IN_PROGRESS; it raises RuntimeError('No build started')
\* when start_build reported no build, and RuntimeError('Build failed') when
\* that snapshot has any other status.
C4_StartReturns ==
    /\ phase = COMPLETED => codebuild.exists
    /\ herr = "No build started" => hpc = "raised" /\ ~codebuild.exists /\ phase = PRE_BUILD
    /\ ~codebuild.exists =>
           \/ hpc \in {"store_records", "start_build"}
           \/ hpc = "raised" /\ herr \in {"ClientError", "No build started"}
    /\ (build.exists /\ build.target = PRE_BUILD) =>
           IF build.buildStatus \in {"SUCCEEDED", "IN_PROGRESS"}
           THEN /\ phase = COMPLETED
                /\ ~(hpc = "raised" /\ herr \in {"Build failed", "No build started"})
           ELSE hpc = "raised" /\ herr = "Build failed" /\ phase = PRE_BUILD

\* C4 witness: build_start raised on a build that was stopped before PRE_BUILD ended
C4_Witness ==
    /\ hpc = "raised"
    /\ herr = "Build failed"
    /\ build.exists
    /\ build.target = PRE_BUILD
    /\ build.buildStatus = "STOPPED"
    /\ mpc = "idle"

\* build_join got, for target COMPLETED, a snapshot whose status is not SUCCEEDED
JoinObservedFailure ==
    /\ build.exists
    /\ build.target = COMPLETED
    /\ build.buildStatus # "SUCCEEDED"

\* C5 as the specification states it: when build_join observes a terminal
\* status other than success, queue_handler raises, returns no failure list,
\* and no result record is written for the records_id.
C5_Original ==
    JoinObservedFailure =>
        /\ hpc = "raised"
        /\ hret = NoValue
        /\ ~table.results.exists

\* C5 as the code has it: when build_join observes a terminal status other
\* than success, queue_handler raises RuntimeError('Build failed') without
\* calling retrieve_results and returns nothing; a result record exists for
\* the records_id exactly when main had already completed store_results
\* before the build ended abnormally, and it is then left in the table unread.
C5_Amended ==
    JoinObservedFailure =>
        /\ hpc = "raised"
        /\ herr = "Build failed"
        /\ hret = NoValue
        /\ table.results.exists <=> mpc = "done"
        /\ table.results.exists =>
               table.results.Results = store_results(failure_message_ids)

\* C5 witness: the join failed after main had written its result record
C5_Witness ==
    /\ JoinObservedFailure
    /\ hpc = "raised"
    /\ mpc = "done"
    /\ table.results.exists

----------------------------------------------------------------------------
(* Properties of main's record loop (SpecMain) and of the returned list (Spec) *)

\* the registry/docker calls made for record n
CallsFor(n) == {i \in 1..Len(ops) : ops[i].rec = n}

\* the message ids main stored with store_results
StoredFailures ==
    IF table.results.exists
    THEN {table.results.Results.batchItemFailures[i].itemIdentifier :
              i \in 1..Len(table.results.Results.batchItemFailures)}
    ELSE {}

\* main stopped with an uncaught exception while at record n
CrashedAt(n) == mpc = "crashed" /\ idx = n

\* message n of the inbound batch has a body that is no JSON document
Undecodable(n) == ~event[n].body.json

\* C6 as the specification states it: store_records keeps the raw string of an
\* undecodable body; when main processes the batch the message fails
\* validation, its MessageId is in the failure set given to store_results, and
\* the later messages of the batch are still processed.
C6_Original ==
    \A n \in 1..Len(event) : Undecodable(n) =>
        /\ table.records.exists =>
               table.records.Records[n].Body = event[n].body.val
        /\ n <= Len(records) =>
               /\ records[n].Body = event[n].body.val
               /\ ~CrashedAt(n)
               /\ idx > n => records[n].MessageId \in Range(failure_message_ids)
               /\ mpc = "done" => records[n].MessageId \in StoredFailures

\* record n has a JSON object as body, and the object lacks a required key
MissingField(n) ==
    /\ records[n].Body.type = "dict"
    /\ ~(RequiredKeys \subseteq DOMAIN records[n].Body.val)

\* C7 as the specification states it: a record whose body lacks a required
\* field is logged, its MessageId is added to the failure set, and the batch
\* continues.
C7_Original ==
    \A n \in 1..Len(records) : MissingField(n) =>
        /\ ~CrashedAt(n)
        /\ idx > n => records[n].MessageId \in Range(failure_message_ids)

\* C7 as the code has it: a record whose body is a JSON object lacking
\* repository-name, image-digest or action-type is logged and skipped: no
\* registry call is made for it, its MessageId is not added to the failure
\* set (nor stored by store_results), and the batch continues with the next
\* record.
C7_Amended ==
    \A n \in 1..Len(records) : MissingField(n) =>
        /\ ~CrashedAt(n)
        /\ CallsFor(n) = {}
        /\ records[n].MessageId \notin Range(failure_message_ids)
        /\ records[n].MessageId \notin StoredFailures

\* C7 witness: main finished a batch whose first record lacks a field and
\* whose second record was replicated
C7_Witness ==
    /\ mpc = "done"
    /\ Len(records) = 2
    /\ MissingField(1)
    /\ CallsFor(2) # {}

\* record n is a PUSH directive whose image-tag is absent or empty
EmptyTagPush(n) ==
    /\ records[n].Body.type = "dict"
    /\ RequiredKeys \subseteq DOMAIN records[n].Body.val
    /\ records[n].Body.val["action-type"] = "PUSH"
    /\ \/ "image-tag" \notin DOMAIN records[n].Body.val
       \/ records[n].Body.val["image-tag"] = ""

\* C8: a PUSH directive with an empty or absent image_tag fails in
\* replicate_push before any pull, tag or push is made; its MessageId is
\* recorded in the failure set (and stored with it by store_results), and
\* main goes on with the remaining directives instead of stopping there.
C8_EmptyTagFails ==
    \A n \in 1..Len(records) : EmptyTagPush(n) =>
        /\ ~CrashedAt(n)
        /\ CallsFor(n) = {}
        /\ idx > n => records[n].MessageId \in Range(failure_message_ids)
        /\ mpc = "done" => records[n].MessageId \in StoredFailures

\* C8 witness: main finished a batch whose first record is such a PUSH and
\* whose second record was replicated
C8_Witness ==
    /\ mpc = "done"
    /\ Len(records) = 2
    /\ EmptyTagPush(1)
    /\ 1 \in StoredFailures
    /\ CallsFor(2) # {}

\* record n is a directive (a JSON object with the required keys)
IsDirective(n) ==
    /\ records[n].Body.type = "dict"
    /\ RequiredKeys \subseteq DOMAIN records[n].Body.val

\* the records of the batch that reference image digest d
References(d) ==
    {n \in 1..Len(records) : IsDirective(n) /\ records[n].Body.val["image-digest"] = d}

\* record n is a PUSH directive with a non-empty image-tag
TaggedPush(n) ==
    /\ IsDirective(n)
    /\ records[n].Body.val["action-type"] = "PUSH"
    /\ Truthy(DictGet(records[n].Body.val, "image-tag"))

\* the pulls of digest d that were attempted, and those that succeeded
PullCalls(d) == {i \in 1..Len(ops) : ops[i].op = "pull" /\ ops[i].digest = d}
Pulled(d) == {i \in PullCalls(d) : ops[i].result = "ok"}

\* C10 as the specification states it: in one batch the image of a digest is
\* pulled at most once, and two directives that reference the same digest
\* trigger exactly one pull.
C10_Original ==
    mpc = "done" =>
        \A d \in Digests :
            /\ Cardinality(Pulled(d)) <= 1
            /\ Cardinality(References(d)) >= 2 => Cardinality(PullCalls(d)) = 1

\* C10 as the code has it: in one batch the image of a digest is pulled
\* successfully at most once; a pull is attempted only for a PUSH directive
\* with a non-empty tag (a DELETE, or a PUSH without tag, pulls nothing);
\* such a directive pulls unless an earlier pull of the digest succeeded, so a
\* failed pull is attempted again by the next such directive and no pull
\* follows a successful one.
C10_Amended ==
    \A d \in Digests :
        /\ Cardinality(Pulled(d)) <= 1
        /\ \A i \in PullCalls(d) : ops[i].rec \in References(d) /\ TaggedPush(ops[i].rec)
        /\ \A i, j \in PullCalls(d) : i < j => ops[i].result = "raise"
        /\ \A n \in References(d) : (TaggedPush(n) /\ idx > n) =>
               \E i \in PullCalls(d) :
                   \/ ops[i].rec = n
                   \/ ops[i].rec < n /\ ops[i].result = "ok"

\* C10 witness: main finished a batch of two tagged PUSH directives of one
\* digest, both pushed, with one pull
C10_Witness ==
    /\ mpc = "done"
    /\ \E d \in Digests :
           /\ References(d) = {1, 2}
           /\ TaggedPush(1) /\ TaggedPush(2)
           /\ Cardinality(PullCalls(d)) = 1
           /\ \E i \in CallsFor(2) : ops[i].op = "push" /\ ops[i].result = "ok"

\* message n of the inbound batch is acknowledged: the list queue_handler
\* returned does not name it
Acknowledged(n) ==
    \A i \in 1..Len(hret.batchItemFailures) :
        hret.batchItemFailures[i].itemIdentifier # event[n].messageId

\* the directive of inbound message n was applied to the destination: a
\* successful push of its tag, or delete, of its digest in its repository
Applied(n) ==
    /\ event[n].body.json
    /\ event[n].body.val.type = "dict"
    /\ RequiredKeys \subseteq DOMAIN event[n].body.val.val
    /\ LET detail == event[n].body.val.val IN
       \E i \in 1..Len(ops) :
           /\ ops[i].rec = event[n].messageId
           /\ ops[i].result = "ok"
           /\ ops[i].repo = detail["repository-name"]
           /\ ops[i].digest = detail["image-digest"]
           /\ \/ /\ detail["action-type"] = "PUSH"
                 /\ ops[i].op = "push"
                 /\ ops[i].tag = DictGet(detail, "image-tag")
              \/ /\ detail["action-type"] = "DELETE"
                 /\ ops[i].op = "delete"

\* C9 as the specification states it: when queue_handler returns normally,
\* the messages of the batch it does not list (the acknowledged ones) are
\* exactly those whose directive the job applied to the destination.
C9_Original ==
    hpc = "returned" =>
        \A n \in 1..Len(event) : Acknowledged(n) <=> Applied(n)

----------------------------------------------------------------------------
(* Properties of main on well-formed batches (SpecScenario) *)

\* the calls made for message n other than the pull, in order, as
\* <<operation, digest, tag, result>>
WorkFor(n) ==
    LET made == SelectSeq(ops, LAMBDA call : call.rec = n /\ call.op # "pull")
    IN  [i \in 1..Len(made) |->
            <<made[i].op, made[i].digest, made[i].tag, made[i].result>>]

\* C11: on a batch of well-formed directives with no transport failure, main
\* makes one tag and one push per PUSH directive (of its digest, with its
\* tag), one delete per DELETE directive (of the tag when image_tag is given,
\* else of the whole digest), one pull per digest that is pushed, and reports
\* an empty failure set.
C11_WellFormedBatch ==
    mpc = "done" =>
        /\ failure_message_ids = <<>>
        /\ table.results.exists
        /\ table.results.Results = [batchItemFailures |-> <<>>]
        /\ \A n \in 1..Len(records) :
               LET detail == records[n].Body.val
                   digest == detail["image-digest"]
                   tag    == DictGet(detail, "image-tag")
               IN  IF detail["action-type"] = "PUSH"
                   THEN WorkFor(records[n].MessageId) =
                            << <<"tag", digest, tag, "ok">>, <<"push", digest, tag, "ok">> >>
                   ELSE WorkFor(records[n].MessageId) =
                            << <<"delete", digest,
                                 IF tag = None \/ tag = "" THEN None ELSE tag, "ok">> >>
        /\ \A d \in Digests :
               Cardinality(PullCalls(d)) =
                   IF \E n \in References(d) : TaggedPush(n) THEN 1 ELSE 0

\* C11 witness: main finished the batch [PUSH D1 v1, PUSH D1 v2, DELETE D2
\* without tag] with one pull of D1, two pushes, one whole-digest delete of D2
\* and no failure
C11_Witness ==
    /\ mpc = "done"
    /\ Len(records) = 3
    /\ records[1].Body.val = Directive("rA", "D1", "v1", "PUSH")
    /\ records[2].Body.val = Directive("rA", "D1", "v2", "PUSH")
    /\ records[3].Body.val = Directive("rA", "D2", None, "DELETE")
    /\ Cardinality(PullCalls("D1")) = 1
    /\ Cardinality({i \in 1..Len(ops) : ops[i].op = "push"}) = 2
    /\ WorkFor(3) = << <<"delete", "D2", None, "ok">> >>
    /\ failure_message_ids = <<>>

----------------------------------------------------------------------------
(* Properties of the table functions (SpecStore) *)

\* the ended retrieve_records / retrieve_results calls, by position in log
RetrievesOf(kind) ==
    {i \in 1..Len(log) : log[i].op = "retrieve" /\ log[i].kind = kind}

\* the ended puts of an item kind that did not raise
PutsOf(kind) ==
    {i \in 1..Len(log) : log[i].op # "retrieve" /\ log[i].kind = kind /\ ~log[i].raised}

\* call j began after call i had ended
After(i, j) == log[j].began >= i

\* the first retrieval of a kind: every other one began after it had ended
FirstOf(kind) ==
    {i \in RetrievesOf(kind) : \A j \in RetrievesOf(kind) \ {i} : After(i, j)}

\* the list holds the messages of the inbound batch, in its order: same ids
\* and receipt handles, the body decoded when it is JSON and as it is when not
SameMessages(list, inbound) ==
    /\ Len(list) = Len(inbound)
    /\ \A n \in 1..Len(inbound) :
           /\ list[n].MessageId = inbound[n].messageId
           /\ list[n].ReceiptHandle = inbound[n].receiptHandle
           /\ list[n].Body = inbound[n].body.val

\* C12 as the specification states it: after store_records, the first
\* retrieve_records returns the same messages in the same order, and a second
\* retrieve_records returns the empty list without raising.
C12_Original ==
    \A k \in PutsOf("records") :
        /\ \A i \in FirstOf("records") : After(k, i) =>
               ~log[i].raised /\ SameMessages(log[i].value, event)
        /\ \A i, j \in RetrievesOf("records") : (After(k, i) /\ After(i, j)) =>
               ~log[j].raised /\ log[j].value = <<>>

\* C12 as the code has it: after store_records, the first retrieve_records
\* whose read succeeds returns the stored messages in the same order (ids,
\* receipt handles, and bodies decoded from JSON where decodable); a later
\* retrieve_records whose read succeeds returns the empty list provided the
\* delete of an earlier retrieval succeeded; a retrieval raises only when its
\* read failed.
C12_Amended ==
    \A k \in PutsOf("records") :
        /\ \A i \in FirstOf("records") : (After(k, i) /\ ~log[i].raised) =>
               SameMessages(log[i].value, event)
        /\ \A i, j \in RetrievesOf("records") :
               (After(k, i) /\ After(i, j) /\ ~log[i].delete_failed /\ ~log[j].raised) =>
                   log[j].value = <<>>
        /\ \A i \in RetrievesOf("records") : log[i].raised => log[i].got.raised

\* C12 witness: a batch of two messages was stored, retrieved whole, and then
\* retrieved again as the empty list
C12_Witness ==
    /\ Len(event) = 2
    /\ Len(log) = 3
    /\ 1 \in PutsOf("records")
    /\ 2 \in RetrievesOf("records") /\ log[2].began = 1
    /\ SameMessages(log[2].value, event)
    /\ 3 \in RetrievesOf("records") /\ log[3].began = 2
    /\ ~log[3].raised /\ log[3].value = <<>>

\* the step is a store_results call that ended
StoreResultsEnds ==
    /\ Len(log') = Len(log) + 1
    /\ log'[Len(log')].op = "store_results"

\* C13: store_results is a create-if-absent write: called while a result
\* record exists for the records_id it raises and leaves that record as it
\* was (no silent overwrite); it writes its record only when none exists.
C13_CreateIfAbsent ==
    [][ StoreResultsEnds =>
            LET call == log'[Len(log')] IN
            IF table.results.exists
            THEN call.raised /\ table' = table
            ELSE IF call.raised
            THEN table' = table
            ELSE table' = [table EXCEPT !.results = ResultsItem(call.value)]
      ]_vars

\* C13 witness: a second store_results, with another failure list, raised and
\* the record of the first is still the one in the table
C13_Witness ==
    /\ Len(log) >= 2
    /\ log[1].op = "store_results" /\ ~log[1].raised
    /\ log[2].op = "store_results" /\ log[2].raised
    /\ log[2].value # log[1].value
    /\ table.results = ResultsItem(log[1].value)

\* the failure set holds one itemIdentifier per message id of the list, in order
ReportedAs(results, ids) ==
    /\ DOMAIN results = {"batchItemFailures"}
    /\ Len(results.batchItemFailures) = Len(ids)
    /\ \A n \in 1..Len(ids) :
           results.batchItemFailures[n] = [itemIdentifier |-> ids[n]]

EmptyFailureSet == [batchItemFailures |-> <<>>]

\* C14 as the specification states it: retrieve_results after store_results
\* returns exactly the reported failure set, a subsequent retrieve_results
\* returns an empty failure set, and with no result record retrieve_results
\* returns an empty failure set rather than an error.
C14_Original ==
    /\ \A k \in PutsOf("results") : PutsOf("results") = {k} =>
           /\ \A i \in FirstOf("results") : After(k, i) =>
                  ~log[i].raised /\ ReportedAs(log[i].value, log[k].got.value)
           /\ \A i, j \in RetrievesOf("results") : (After(k, i) /\ After(i, j)) =>
                  ~log[j].raised /\ log[j].value = EmptyFailureSet
    /\ PutsOf("results") = {} =>
           \A i \in RetrievesOf("results") :
               ~log[i].raised /\ log[i].value = EmptyFailureSet

\* C14 as the code has it: a retrieve_results raises only when its read
\* fails; when the read succeeds, the first one after store_results returns
\* exactly the reported failure set (one itemIdentifier per reported id), one
\* on a handle without result record returns an empty failure set, and a
\* subsequent one returns an empty failure set provided the delete of an
\* earlier retrieval succeeded.
C14_Amended ==
    /\ \A k \in PutsOf("results") : PutsOf("results") = {k} =>
           /\ \A i \in FirstOf("results") : (After(k, i) /\ ~log[i].raised) =>
                  ReportedAs(log[i].value, log[k].got.value)
           /\ \A i, j \in RetrievesOf("results") :
                  (After(k, i) /\ After(i, j) /\ ~log[i].delete_failed /\ ~log[j].raised) =>
                      log[j].value = EmptyFailureSet
    /\ PutsOf("results") = {} =>
           \A i \in RetrievesOf("results") :
               ~log[i].raised => log[i].value = EmptyFailureSet
    /\ \A i \in RetrievesOf("results") : log[i].raised => log[i].got.raised

\* C14 witness: the failure list <<1, 2>> was reported, consumed as two
\* itemIdentifiers, and a second consume returned the empty failure set
C14_Witness ==
    /\ Len(log) = 3
    /\ 1 \in PutsOf("results") /\ log[1].got.value = <<1, 2>>
    /\ 2 \in RetrievesOf("results") /\ log[2].began = 1
    /\ Len(log[2].value.batchItemFailures) = 2
    /\ 3 \in RetrievesOf("results") /\ log[3].began = 2
    /\ ~log[3].raised /\ log[3].value = EmptyFailureSet

\* the step is a retrieve_records / retrieve_results call that ended
RetrieveEnds ==
    /\ Len(log') = Len(log) + 1
    /\ log'[Len(log')].op = "retrieve"

\* C15: every retrieve_records / retrieve_results call, whether its read gave
\* data, found no entry or raised, issues a delete of the entry after the
\* read; when the delete fails the call still returns or raises exactly what
\* the read determined, and when it succeeds the entry is gone.
C15_DeleteOnEveryPath ==
    /\ [] (\A i \in RetrievesOf("records") \cup RetrievesOf("results") :
               /\ log[i].deleted
               /\ log[i].raised = log[i].got.raised
               /\ log[i].value = log[i].got.value)
    /\ [][ RetrieveEnds =>
               LET call == log'[Len(log')] IN
               IF call.delete_failed
               THEN table' = table
               ELSE table' = [table EXCEPT ![call.kind] = NoItem]
         ]_vars

\* C15 witness: a retrieve_records returned the stored messages although its
\* delete failed, and the entry is still in the table
C15_Witness ==
    \E i \in RetrievesOf("records") :
        /\ log[i].deleted
        /\ log[i].delete_failed
        /\ ~log[i].raised
        /\ log[i].value # <<>>
        /\ table.records.exists

\* C16 as the specification states it: across any interleaving of
\* retrieve_records calls on one handle, at most one call returns the stored
\* messages and every other call returns the empty list.
C16_Original ==
    Cardinality({i \in RetrievesOf("records") : log[i].value # <<>>}) <= 1

----------------------------------------------------------------------------
(* Order of processing (SpecMain) *)

\* the position in the inbound batch of the message with id m
Position(m) == CHOOSE n \in 1..Len(event) : event[n].messageId = m

\* C17: main applies the directives in the order of the inbound batch given
\* to store_records: the records it iterates are the inbound messages in
\* their order, every registry call made so far belongs to a record already
\* taken from them, and in the sequence of calls (each completed or failed
\* before the next starts) no call of a later message precedes a call of an
\* earlier one, also after a call of the earlier one failed.
C17_CaptureOrder ==
    /\ \A n \in 1..Len(records) : records[n].MessageId = event[n].messageId
    /\ \A i \in 1..Len(ops) :
           /\ \E n \in 1..Len(event) : event[n].messageId = ops[i].rec
           /\ Position(ops[i].rec) < idx
           /\ ops[i].result \in {"ok", "raise"}
    /\ \A i, j \in 1..Len(ops) :
           i < j => Position(ops[i].rec) <= Position(ops[j].rec)

\* a batch of two directives was processed to the end, a call of the first
\* failed, and the calls of the second were made after it
C17_Witness ==
    /\ mpc = "done"
    /\ Len(event) = 2
    /\ \E i, j \in 1..Len(ops) :
           /\ i < j
           /\ ops[i].rec = event[1].messageId /\ ops[i].result = "raise"
           /\ ops[j].rec = event[2].messageId /\ ops[j].result = "ok"

----------------------------------------------------------------------------
(* Redelivery (SpecRedelivery) *)

\* message n of the batch is the directive <<repo, digest, tag, action>>
DirectiveAt(n, repo, digest, tag, action) ==
    /\ n <= Len(event)
    /\ event[n].body.json
    /\ event[n].body.val = PyDict(Directive(repo, digest, tag, action))

\* C18: redelivery is idempotent: when main has applied a batch of PUSH and
\* DELETE directives to the destination with no operation failing and then
\* applies the same batch again, also without failure, the digest each tag
\* of the destination names is what it was after the first application.
C18_RedeliveryIdempotent ==
    (redelivered /\ mpc = "done") => dst = once

\* a destination whose tags all name D1 received twice the batch "delete
\* digest D1 of rA, push D1 as rA:v1": the second run's delete removed the
\* tag the first run had pushed, and its push set it again
C18_Witness ==
    /\ redelivered
    /\ mpc = "done"
    /\ DirectiveAt(1, "rA", "D1", None, "DELETE")
    /\ DirectiveAt(2, "rA", "D1", "v1", "PUSH")
    /\ Len(SelectSeq(ops, LAMBDA call : call.op = "delete" /\ call.result = "ok")) = 2
    /\ Len(SelectSeq(ops, LAMBDA call : call.op = "push" /\ call.result = "ok")) = 2
    /\ dst[<<"rA", "v1">>] = "D1"
    /\ dst[<<"rA", "v2">>] = Absent
    /\ dst[<<"rB", "v1">>] = "D1"

----------------------------------------------------------------------------
(* What build_start has observed when it returns (Spec) *)

\* build_start has returned the build id: the snapshot wait_for_build gave
\* it for its target phase passed the status test, and queue_handler has
\* gone on to build_join
BuildStartReturned ==
    /\ build.exists
    /\ build.target = PRE_BUILD
    /\ ~build_start_failed(build)
    /\ phase = COMPLETED

\* C19 as stated: build_start does not return normally until the build has
\* been observed in the BUILD phase or a later one.
C19_Original ==
    BuildStartReturned => build.currentPhase >= BUILD

----------------------------------------------------------------------------
(* The ingress classifier (SpecEvent) *)

\* the send_message calls that put a message on the queue
Enqueued == SelectSeq(queue, LAMBDA call : call.result = "ok")

\* C20: for an event whose action-type is PUSH or DELETE, event_handler
\* calls send_message exactly once, and when it returns exactly one message
\* is on the queue: the event's detail as JSON, in the message group of its
\* repository (and tag); it raises only when that one call raised.  For
\* every other action type it returns without error, having called
\* send_message not at all.
C20_OneMessagePerAcceptedEvent ==
    LET detail == ecr_event.detail
        accepted == detail["action-type"] \in {"PUSH", "DELETE"}
    IN  /\ epc = "start" => queue = <<>>
        /\ (epc # "start" /\ accepted) =>
               /\ Len(queue) = 1
               /\ json_loads(queue[1].MessageBody) = PyDict(detail)
               /\ queue[1].MessageGroupId[1] = detail["repository-name"]
               /\ epc = "returned" <=> Len(Enqueued) = 1
               /\ epc = "raised" <=> queue[1].result = "raise"
        /\ (epc # "start" /\ ~accepted) =>
               /\ epc = "returned"
               /\ queue = <<>>

\* event_handler returned on a DELETE event and its message is on the queue
C20_Witness ==
    /\ epc = "returned"
    /\ ecr_event.detail["action-type"] = "DELETE"
    /\ Len(Enqueued) = 1
    /\ Len(queue) = 1

----------------------------------------------------------------------------
(* Which repository a directive reaches (SpecScenario) *)

\* the directive of the inbound message with id m
DirectiveOf(m) == event[Position(m)].body.val.val

\* C21 as stated: every push and every delete that main makes for a
\* directive goes to the destination repository the directive itself names,
\* also when an earlier directive of the batch named the same image_digest
\* under another repository.
C21_Original ==
    \A i \in 1..Len(ops) :
        ops[i].op \in {"push", "delete"} =>
            ops[i].repo = DirectiveOf(ops[i].rec)["repository-name"]

----------------------------------------------------------------------------
(* Transport failures in main's record loop (SpecMain) *)

\* a pull, tag, push or delete made for record n raised
TransportFailure(n) == \E i \in CallsFor(n) : ops[i].result = "raise"

\* how many times the failure list names message id m
TimesListed(m) == Len(SelectSeq(failure_message_ids, LAMBDA id : id = m))

\* record n is a directive that leads to registry calls: a PUSH with a tag,
\* or a DELETE
Replicable(n) ==
    /\ read_fields(records[n].Body) = "ok"
    /\ LET detail == records[n].Body.val IN
       \/ detail["action-type"] = "PUSH" /\ Truthy(DictGet(detail, "image-tag"))
       \/ detail["action-type"] = "DELETE"

\* C22: when a pull, tag, push or delete made for a directive raises, main
\* catches the exception: it has moved past the record, the record's
\* MessageId is in the failure list exactly once, the loop is never stopped
\* by it (main stops inside the loop only at a record whose body is no JSON
\* object), every later directive the loop has passed had its calls made,
\* no call follows the raising one for the same record, and when main ends
\* store_results has stored the accumulated failure list, the record's
\* MessageId included.
C22_TransportFailureCaught ==
    \A n \in 1..Len(records) : TransportFailure(n) =>
        /\ idx > n
        /\ TimesListed(records[n].MessageId) = 1
        /\ \A i \in CallsFor(n) : ops[i].result = "raise" =>
               \A j \in CallsFor(n) : j <= i
        /\ (mpc = "crashed" /\ idx <= Len(records)) =>
               read_fields(records[idx].Body) = "TypeError"
        /\ \A m \in (n + 1)..(idx - 1) : Replicable(m) => CallsFor(m) # {}
        /\ mpc = "done" =>
               /\ table.results.exists
               /\ table.results.Results = store_results(failure_message_ids)
               /\ records[n].MessageId \in StoredFailures

\* main finished a batch of two directives: the push of the first raised,
\* the second was deleted at the destination, and the stored failure list
\* names the first message only
C22_Witness ==
    /\ mpc = "done"
    /\ Len(records) = 2
    /\ \E i \in CallsFor(1) : ops[i].op = "push" /\ ops[i].result = "raise"
    /\ \E j \in CallsFor(2) : ops[j].op = "delete" /\ ops[j].result = "ok"
    /\ StoredFailures = {records[1].MessageId}

----------------------------------------------------------------------------
(* Termination of wait_for_build (SpecWait) *)

\* queue_handler is invoked with one PUSH message and a time budget, and no
\* transport call fails
InitWait ==
    /\ event = Inbound(<<JsonText(PyDict(Directive("rA", "D1", "v1", "PUSH")))>>)
    /\ remaining \in Budgets
    /\ table = EmptyTable
    /\ hpc = "store_records"
    /\ mpc = "idle"
    /\ faults = MaxFaults
    /\ dst = NoImages
    /\ once = dst
    /\ InitLocals

\* the Lambda keeps running: each step of wait_for_build that can be taken
\* is eventually taken; nothing is assumed of the job runner or of the job
SpecWait ==
    /\ InitWait
    /\ [][Next]_vars
    /\ WF_vars(wait_for_build_loop)
    /\ WF_vars(wait_for_build_poll)
    /\ WF_vars(wait_for_build_sleep)

\* wait_for_build is running, called with the given target phase
Waiting(target) == hpc \in {"wait_loop", "wait_poll", "wait_sleep"} /\ phase = target

\* the call of build_start has ended: it raised, or returned a snapshot
\* (build_start then raised, or build_join's call began)
StartWaitEnded == hpc = "raised" \/ phase = COMPLETED

\* the call of build_join has ended: it raised, or returned a snapshot
JoinWaitEnded == hpc \in {"raised", "retrieve_results", "returned"}

\* wait_for_build goes to sleep only with more than 10 s left, and the time
\* that remains never grows
C23_BudgetStep ==
    /\ (hpc = "wait_sleep" /\ hpc' = "wait_loop") =>
           /\ remaining > SleepMillis
           /\ remaining' = remaining - SleepMillis
           /\ remaining' > 0
    /\ remaining' <= remaining

\* C23: with a remaining time that goes down as time passes, every call of
\* wait_for_build (that of build_start and that of build_join) eventually
\* returns a snapshot or raises, whatever phases and statuses the job
\* runner reports, also when the build never advances; and it starts its
\* 10 s sleep only when more than 10 s remain.
C23_WaitTerminates ==
    /\ Waiting(PRE_BUILD) ~> StartWaitEnded
    /\ Waiting(COMPLETED) ~> JoinWaitEnded
    /\ [][C23_BudgetStep]_vars

\* the call of build_start gave up, for lack of time, on a build that the
\* runner never moved out of its first phase
C23_Witness ==
    /\ hpc = "raised"
    /\ herr = DeadlineExceeded
    /\ phase = PRE_BUILD
    /\ codebuild.exists
    /\ codebuild.currentPhase = SUBMITTED
    /\ codebuild.buildStatus = "IN_PROGRESS"
    /\ remaining >= 0

====
